---- MODULE Spec2Model ----
(***************************************************************************)
(* Model of tinygrad/ops_gpu.py: the GPU operations of tinygrad.  A single *)
(* control thread calls forward and backward of one Function at a time;    *)
(* every kernel launch is modelled by evaluating the index arithmetic of   *)
(* the kernel source for every work-item of its global size.               *)
(*                                                                         *)
(* Conventions: shapes are sequences of positive integers; axis numbers    *)
(* are the Python axis plus one (TLA+ sequences start at 1); flat buffer   *)
(* indices and work-item ids are 0-based as in the kernels.                *)
(***************************************************************************)
EXTENDS Integers, Sequences, FiniteSets, TLC

VARIABLES pc, call, saved, out, gout, clbuild_cache, binop_cache, compiles

vars == <<pc, call, saved, out, gout, clbuild_cache, binop_cache, compiles>>
opvars == <<pc, call, saved, out, gout>>
cachevars == <<clbuild_cache, binop_cache, compiles>>

(***************************************************************************)
(* Bounds of the explored inputs.                                          *)
(***************************************************************************)
MaxRank == 3
MaxDim == 2
MaxPermRank == 3
MaxPermDim == 3
MaxMatRank == 3
MaxMatDim == 2
MaxSliceRank == 2
MaxSliceDim == 2
MaxReshapeRank == 2
MaxConv == 2
MaxKeys == 129
MaxConvx == 3
MaxWorkItems == 2
MaxAdds == 8

Shapes == UNION {[1..r -> 1..MaxDim] : r \in 1..MaxRank}

Range(s) == {s[i] : i \in 1..Len(s)}

(***************************************************************************)
(* kernel caches: clbuild and get_binop_prg under functools.lru_cache()     *)
(*                                                                         *)
(* A cache is a sequence of entries [key, val], least recently used first. *)
(* Source texts are numbered: n >= 0 for a text passed to clbuild by an    *)
(* operation, and binop_src(c) < 0 for the text get_binop_prg generates    *)
(* for its c-th distinct (code, complist) key.  compiles[s] counts the     *)
(* runs of thr.compile on text s, and the handle of its n-th compilation   *)
(* is <<s, n>>.                                                            *)
(***************************************************************************)
\* functools.lru_cache() is lru_cache(maxsize=128)
lru_maxsize == 128

lru_hit(cache, key) == \E i \in 1..Len(cache) : cache[i].key = key

lru_value(cache, key) == (CHOOSE e \in Range(cache) : e.key = key).val

\* a hit makes the entry the most recently used
lru_touch(cache, key) ==
  SelectSeq(cache, LAMBDA e : e.key # key)
    \o <<CHOOSE e \in Range(cache) : e.key = key>>

\* a miss stores the result, dropping the least recently used entry of a full cache
lru_store(cache, key, val) ==
  (IF Len(cache) >= lru_maxsize THEN Tail(cache) ELSE cache)
    \o <<[key |-> key, val |-> val]>>

\* clbuild(thr, prg, name) for the one device context thr: the caches after the
\* call and the handle returned
clbuild(cache, ncompiled, prg) ==
  IF lru_hit(cache, prg)
    THEN [cache |-> lru_touch(cache, prg), compiles |-> ncompiled,
          handle |-> lru_value(cache, prg)]
    ELSE LET n == IF prg \in DOMAIN ncompiled THEN ncompiled[prg] + 1 ELSE 1
         IN [cache |-> lru_store(cache, prg, <<prg, n>>),
             compiles |-> [s \in DOMAIN ncompiled \cup {prg} |->
                             IF s = prg THEN n ELSE ncompiled[s]],
             handle |-> <<prg, n>>]

\* the source text get_binop_prg builds from its key: one text per key,
\* apart from the texts the operations pass to clbuild themselves
binop_src(c) == 0 - (c + 1)

(***************************************************************************)
(* numpy helpers                                                           *)
(***************************************************************************)
RECURSIVE np_prod(_)
np_prod(s) == IF s = <<>> THEN 1 ELSE Head(s) * np_prod(Tail(s))

np_maximum(a, b) == [i \in 1..Len(a) |-> IF a[i] >= b[i] THEN a[i] ELSE b[i]]

\* product of s[i..Len(s)]
RECURSIVE prod_from(_, _)
prod_from(s, i) == IF i > Len(s) THEN 1 ELSE s[i] * prod_from(s, i + 1)

(***************************************************************************)
(* binary ops                                                              *)
(***************************************************************************)
\* shape_x = np.ones(n_dims); shape_x[:len(x.shape)] = x.shape
pad_shape(shape, n_dims) ==
  [i \in 1..n_dims |-> IF i <= Len(shape) THEN shape[i] ELSE 1]

\* np.all((shape_x == 1) | (shape_y == 1) | (shape_x == shape_y))
shapes_ok(shape_x, shape_y) ==
  \A i \in 1..Len(shape_x) : shape_x[i] = 1 \/ shape_y[i] = 1 \/ shape_x[i] = shape_y[i]

\* the closure push(dim, comp) acting on (dimlist, complist)
push(l, dim, comp) ==
  IF Len(l.complist) > 0 /\ l.complist[Len(l.complist)] = comp
    THEN [l EXCEPT !.dimlist[Len(l.dimlist)] = @ * dim]
    ELSE IF comp # <<FALSE, FALSE>>
      THEN [dimlist |-> Append(l.dimlist, dim), complist |-> Append(l.complist, comp)]
      ELSE l

\* for i in range(n_dims): push(max(shape_x[i], shape_y[i]), (shape_x[i] > 1, shape_y[i] > 1))
RECURSIVE group_dims(_, _, _)
group_dims(shape_x, shape_y, n) ==
  IF n = 0 THEN [dimlist |-> <<>>, complist |-> <<>>]
  ELSE push(group_dims(shape_x, shape_y, n - 1),
            IF shape_x[n] >= shape_y[n] THEN shape_x[n] ELSE shape_y[n],
            <<shape_x[n] > 1, shape_y[n] > 1>>)

\* faulty variant of cumprod_back: the cumulative product taken front to back
cumprod_front(dimlist) ==
  [i \in 1..Len(dimlist) |-> np_prod(SubSeq(dimlist, 1, i))]

\* np.array(dimlist)[-1::-1].cumprod()[-1::-1]
cumprod_back(dimlist) == [i \in 1..Len(dimlist) |-> prod_from(dimlist, i)]

\* the generated kernel: int idx_ret<i> = (gid0 / p<i>) % d<i>, with 1 for the last p
idx_ret(d, p, i, gid0) ==
  (gid0 \div (IF i < Len(d) THEN p[i] ELSE 1)) % d[i]

\* idx_exprs[j] after the first n logical dimensions:
\*   idx_exprs[j] = "idx_ret%d + d%d*(%s)" whenever complist[i][j]
RECURSIVE idx_expr(_, _, _, _, _, _)
idx_expr(complist, d, p, j, n, gid0) ==
  IF n = 0 THEN 0
  ELSE IF complist[n][j]
    THEN idx_ret(d, p, n, gid0) + (d[n] * idx_expr(complist, d, p, j, n - 1, gid0))
    ELSE idx_expr(complist, d, p, j, n - 1, gid0)

\* the work-item gid0 of the kernel get_binop_prg(thr, code, complist) builds:
\* the indices it reads x_g and y_g at
get_binop_prg(complist, d, p, gid0) ==
  <<idx_expr(complist, d, p, 1, Len(complist), gid0),
    idx_expr(complist, d, p, 2, Len(complist), gid0)>>

\* contents of the operand buffers of the modelled calls (distinct per index)
x_data(i) == i + 1
y_data(i) == 100 * (i + 1)

\* binary_op(ctx, 'a+b', x, y); trace lists, in program order, the validation
\* outcome, the kernel builds, the buffer objects created and the launches
binary_op(x_shape, y_shape) ==
  LET n_dims == IF Len(x_shape) >= Len(y_shape) THEN Len(x_shape) ELSE Len(y_shape)
      shape_x == pad_shape(x_shape, n_dims)
      shape_y == pad_shape(y_shape, n_dims)
  IN IF ~shapes_ok(shape_x, shape_y)
       THEN [err |-> TRUE, trace |-> <<"raise">>]
       ELSE
         LET shape_ret == np_maximum(shape_x, shape_y)
             l == group_dims(shape_x, shape_y, n_dims)
             prod_list == cumprod_back(l.dimlist)
             global_size == IF Len(l.dimlist) > 0 THEN prod_list[1] ELSE 1
             reads == [gid0 \in 0..(global_size - 1) |->
                         get_binop_prg(l.complist, l.dimlist, Tail(prod_list), gid0)]
         IN [err |-> FALSE,
             trace |-> <<"clbuild", "GPUBuffer", "launch">>,
             shape |-> shape_ret,
             dimlist |-> l.dimlist,
             complist |-> l.complist,
             global_size |-> global_size,
             reads |-> reads,
             res |-> [gid0 \in 0..(global_size - 1) |->
                        x_data(reads[gid0][1]) + y_data(reads[gid0][2])]]

(***************************************************************************)
(* reduce ops                                                              *)
(***************************************************************************)
NoAxis == [kind |-> "None", ax |-> {}]
AxisList(S) == [kind |-> "list", ax |-> S]

RECURSIVE seq_sum(_)
seq_sum(s) == IF s = <<>> THEN 0 ELSE Head(s) + seq_sum(Tail(s))

\* contents of the reduced buffer in the modelled calls
a_data(i) == i + 1

\* faulty variant of reduce_dim: the kept branch forgets tprod /= shape_x[dim]
reduce_dim_stale_tprod(st, shape_x, shape_ret, dim, gid, x) ==
  LET idx == st.idx * shape_x[dim]
  IN IF shape_x[dim] = shape_ret[dim]
       THEN [idx |-> idx + ((gid \div st.tprod) % shape_x[dim]),
             tprod |-> st.tprod, tsz |-> st.tsz]
       ELSE [idx |-> idx + ((x \div (st.tsz \div shape_x[dim])) % shape_x[dim]),
             tprod |-> st.tprod, tsz |-> st.tsz \div shape_x[dim]]

\* one turn of the kernel's loop over dim: st = (idx, tprod, tsz) before the turn
reduce_dim(st, shape_x, shape_ret, dim, gid, x) ==
  LET idx == st.idx * shape_x[dim]
  IN IF shape_x[dim] = shape_ret[dim]
       THEN [idx |-> idx + ((gid \div (st.tprod \div shape_x[dim])) % shape_x[dim]),
             tprod |-> st.tprod \div shape_x[dim], tsz |-> st.tsz]
       ELSE [idx |-> idx + ((x \div (st.tsz \div shape_x[dim])) % shape_x[dim]),
             tprod |-> st.tprod, tsz |-> st.tsz \div shape_x[dim]]

\* for (int dim = 0; dim < n_dims; dim++) { ... }
RECURSIVE reduce_loop(_, _, _, _, _, _, _)
reduce_loop(shape_x, shape_ret, prod, sz, n, gid, x) ==
  IF n = 0 THEN [idx |-> 0, tprod |-> prod, tsz |-> sz]
  ELSE reduce_dim(reduce_loop(shape_x, shape_ret, prod, sz, n - 1, gid, x),
                  shape_x, shape_ret, n, gid, x)

\* the index into a_g that work-item gid reads in turn x of its loop
reduce_kernel(shape_x, shape_ret, prod, sz, n_dims, gid, x) ==
  reduce_loop(shape_x, shape_ret, prod, sz, n_dims, gid, x).idx

\* reduce_op(ctx, "out += a", "out", inp, axis)
reduce_op(inp_shape, axis) ==
  LET osize == IF axis.kind = "None"
                 THEN [i \in 1..Len(inp_shape) |-> 1]
                 ELSE [i \in 1..Len(inp_shape) |-> IF i \in axis.ax THEN 1 ELSE inp_shape[i]]
      sz == np_prod(inp_shape) \div np_prod(osize)
      global_size == np_prod(osize)
      reads == [gid \in 0..(global_size - 1) |->
                  [k \in 1..sz |->
                     reduce_kernel(inp_shape, osize, np_prod(osize), sz, Len(osize), gid, k - 1)]]
  IN [shape |-> IF axis.kind = "None" THEN <<1>> ELSE osize,
      osize |-> osize,
      sz |-> sz,
      global_size |-> global_size,
      reads |-> reads,
      res |-> [gid \in 0..(global_size - 1) |->
                 seq_sum([k \in 1..sz |-> a_data(reads[gid][k])])]]

\* unbroadcast(ctx, out, in_sh)
unbroadcast(out_shape, in_sh) ==
  LET sum_axis == IF in_sh # <<1>>
                    THEN AxisList({i \in 1..Len(in_sh) : in_sh[i] = 1 /\ out_shape[i] > 1})
                    ELSE NoAxis
  IN reduce_op(out_shape, sum_axis)

(***************************************************************************)
(* movement ops                                                            *)
(***************************************************************************)
\* Python's a // b on integers (floor division), b # 0
floordiv(a, b) ==
  LET abs(v) == IF v < 0 THEN 0 - v ELSE v
      q == abs(a) \div abs(b)
  IN IF (a >= 0) = (b > 0) THEN q
     ELSE IF q * abs(b) = abs(a) THEN 0 - q ELSE 0 - (q + 1)

\* Reshape.forward(ctx, x, shape): the buffer object r is created, then asserted on
Reshape_forward(x_shape, shape) ==
  LET new_shape == [i \in 1..Len(shape) |->
                      IF shape[i] = -1
                        THEN floordiv(0 - np_prod(x_shape), np_prod(shape))
                        ELSE shape[i]]
      err == np_prod(x_shape) # np_prod(new_shape)
  IN [err |-> err,
      trace |-> <<"save_for_backward", "GPUBuffer">> \o (IF err THEN <<"raise">> ELSE <<>>),
      shape |-> new_shape]

\* np.argsort(order): the indices that sort order (stable)
np_argsort(order) ==
  LET rank(i) == Cardinality({j \in 1..Len(order) :
                    order[j] < order[i] \/ (order[j] = order[i] /\ j < i)})
  IN [k \in 1..Len(order) |-> CHOOSE i \in 1..Len(order) : rank(i) = k - 1]

\* faulty variant of backward_order: the forward order is applied again
backward_order_same(order) == order

\* Transpose.backward's order argument: np.argsort(ctx.order)
backward_order(order) == np_argsort(order)

\* KERNEL void perm, the loop for(i = n_axis-1; i > -1; i--) from axis i down:
\* the idx it adds up, starting with gi
RECURSIVE perm_kernel(_, _, _, _)
perm_kernel(shape, order, i, gi) ==
  IF i = 0 THEN 0
  ELSE ((gi % shape[order[i]]) * prod_from(shape, order[i] + 1))
       + perm_kernel(shape, order, i - 1, gi \div shape[order[i]])

\* perm_axis(ctx, inp, order), inp a buffer of shape inp_shape
perm_axis(inp, inp_shape, order) ==
  LET osize == [i \in 1..Len(order) |-> inp_shape[order[i]]]
      global_size == np_prod(osize)
      reads == [gid \in 0..(global_size - 1) |->
                  perm_kernel(inp_shape, order, Len(osize), gid)]
  IN [shape |-> osize,
      global_size |-> global_size,
      reads |-> reads,
      buf |-> [gid \in 0..(global_size - 1) |-> inp[reads[gid]]]]

\* faulty variant of gslice_dim: the bounds test forgets sidx >= 0
gslice_dim_no_lower(st, shape_x, shape_ret, shift, dim, gid) ==
  LET prod == st.prod \div shape_ret[dim]
      sidx == ((gid \div prod) % shape_ret[dim]) + shift[dim]
  IN [prod |-> prod,
      zero |-> st.zero /\ sidx < shape_x[dim],
      iptr |-> (st.iptr * shape_x[dim]) + sidx]

\* KERNEL void gslice, one turn of the loop over dim: st = (prod, zero, iptr)
gslice_dim(st, shape_x, shape_ret, shift, dim, gid) ==
  LET prod == st.prod \div shape_ret[dim]
      sidx == ((gid \div prod) % shape_ret[dim]) + shift[dim]
  IN [prod |-> prod,
      zero |-> st.zero /\ (sidx >= 0 /\ sidx < shape_x[dim]),
      iptr |-> (st.iptr * shape_x[dim]) + sidx]

RECURSIVE gslice_loop(_, _, _, _, _, _)
gslice_loop(shape_x, shape_ret, shift, prod, n, gid) ==
  IF n = 0 THEN [prod |-> prod, zero |-> TRUE, iptr |-> 0]
  ELSE gslice_dim(gslice_loop(shape_x, shape_ret, shift, prod, n - 1, gid),
                  shape_x, shape_ret, shift, n, gid)

\* inner_slice(ctx, x, arg), x a buffer of shape x_shape, arg a list of (start, end)
inner_slice(x, x_shape, arg) ==
  LET shift == [i \in 1..Len(arg) |-> arg[i][1]]
      oshape == [i \in 1..Len(arg) |-> arg[i][2] - arg[i][1]]
      global_size == np_prod(oshape)
      k(gid) == gslice_loop(x_shape, oshape, shift, np_prod(oshape), Len(oshape), gid)
  IN [shape |-> oshape,
      arg |-> arg,
      global_size |-> global_size,
      oob |-> \E gid \in 0..(global_size - 1) : k(gid).zero /\ k(gid).iptr \notin DOMAIN x,
      buf |-> [gid \in 0..(global_size - 1) |->
                 IF k(gid).zero /\ k(gid).iptr \in DOMAIN x THEN x[k(gid).iptr] ELSE 0]]

\* faulty variant of slice_backward_arg: the new end forgets shape[i] - p[1]
slice_backward_arg_short(shape, arg, grad_shape) ==
  [i \in 1..Len(arg) |-> <<0 - arg[i][1], grad_shape[i]>>]

\* narg = [(0-p[0], grad_output.shape[i]+(shape[i]-p[1])) for i,p in enumerate(ctx.arg)]
slice_backward_arg(shape, arg, grad_shape) ==
  [i \in 1..Len(arg) |-> <<0 - arg[i][1], grad_shape[i] + (shape[i] - arg[i][2])>>]

(***************************************************************************)
(* processing ops: Matmul                                                  *)
(***************************************************************************)
\* a device buffer is a function from 0..n-1 to its contents

\* contents of the buffers of the modelled calls
input_buf(n) == [i \in 0..(n - 1) |-> i + 1]
weight_buf(n) == [i \in 0..(n - 1) |-> 2 * i + 3]
grad_buf(n) == [i \in 0..(n - 1) |-> 5 * i + 7]

\* what a read outside a buffer may return
Garbage == {0, 1}

\* shape[-1], shape[-2], shape[0:-2]
last(shape) == shape[Len(shape)]
last2(shape) == shape[Len(shape) - 1]
lead(shape) == SubSeq(shape, 1, Len(shape) - 2)

\* work-item (X, Y, stride) of KERNEL void matmul: the pairs of indices its
\* loop reads and the index of res it writes
matmul_kernel(a, X, Y, stride) ==
  [reads |-> [k \in 1..a.msize |->
                <<X * a.is0 + (k - 1) * a.is1 + a.isize * a.msize * stride,
                  Y * a.ws0 + (k - 1) * a.ws1 + a.msize * a.osize * stride>>],
   write |-> X * a.osize + Y + a.isize * a.osize * stride]

\* a launch matmul(input.cl, weight.cl, res.cl, *a, global_size=gs) on a result
\* buffer of res_len unspecified cells; g is what reads outside a buffer return
matmul_launch(input, weight, res_len, a, gs, g) ==
  LET items == {<<X, Y, st>> : X \in 0..(gs[1] - 1), Y \in 0..(gs[2] - 1), st \in 0..(gs[3] - 1)}
      k == [it \in items |-> matmul_kernel(a, it[1], it[2], it[3])]
      rd(b, i) == IF i \in DOMAIN b THEN b[i] ELSE g
      val(it) == seq_sum([x \in 1..a.msize |->
                   rd(input, k[it].reads[x][1]) * rd(weight, k[it].reads[x][2])])
      writer == [i \in 0..(res_len - 1) |-> {it \in items : k[it].write = i}]
  IN [items |-> k,
      oob_read |-> \E it \in items : \E x \in 1..a.msize :
                      \/ k[it].reads[x][1] \notin DOMAIN input
                      \/ k[it].reads[x][2] \notin DOMAIN weight,
      oob_write |-> \E it \in items : k[it].write \notin 0..(res_len - 1),
      res |-> [i \in 0..(res_len - 1) |->
                 IF writer[i] = {} THEN g ELSE val(CHOOSE it \in writer[i] : TRUE)]]

\* matmul(input.cl, weight.cl, ret.cl, isize, msize, i32(1), msize, i32(1), osize, osize, ...)
forward_args(isize, msize, osize) ==
  [isize |-> isize, is0 |-> msize, is1 |-> 1, msize |-> msize,
   ws0 |-> 1, ws1 |-> osize, osize |-> osize]

\* faulty variant of grad_input_args: the weight is read with the forward strides
grad_input_args_untransposed(isize, msize, osize) ==
  [isize |-> isize, is0 |-> osize, is1 |-> 1, msize |-> osize,
   ws0 |-> 1, ws1 |-> osize, osize |-> msize]

\* matmul(grad_output.cl, weight.cl, grad_input.cl, isize, osize, i32(1), osize, osize, i32(1), msize, ...)
grad_input_args(isize, msize, osize) ==
  [isize |-> isize, is0 |-> osize, is1 |-> 1, msize |-> osize,
   ws0 |-> osize, ws1 |-> 1, osize |-> msize]

\* matmul(input.cl, grad_output.cl, grad_weight.cl, msize, i32(1), msize, isize, i32(1), osize, osize, ...)
grad_weight_args(isize, msize, osize) ==
  [isize |-> msize, is0 |-> 1, is1 |-> msize, msize |-> isize,
   ws0 |-> 1, ws1 |-> osize, osize |-> osize]

\* Matmul.forward(ctx, input, weight)
Matmul_forward(in_shape, w_shape, g) ==
  IF last(in_shape) # last2(w_shape)
    THEN [err |-> TRUE, trace |-> <<"raise">>]
    ELSE
      LET cnt == IF Len(in_shape) > 2 THEN np_prod(lead(in_shape)) ELSE 1
          isize == last2(in_shape)
          msize == last(in_shape)
          osize == last(w_shape)
          shape == lead(in_shape) \o <<isize, osize>>
          l == matmul_launch(input_buf(np_prod(in_shape)), weight_buf(np_prod(w_shape)),
                             np_prod(shape), forward_args(isize, msize, osize),
                             <<isize, osize, cnt>>, g)
      IN [err |-> FALSE,
          trace |-> <<"GPUBuffer", "clbuild", "launch">>,
          shape |-> shape,
          cnt |-> cnt,
          launch |-> l]

\* Matmul.backward(ctx, grad_output), grad_output of the forward output's shape
Matmul_backward(in_shape, w_shape, cnt, out_shape, g) ==
  LET isize == last2(in_shape)
      msize == last(in_shape)
      osize == last(w_shape)
  IN [grad_input |->
        [shape |-> in_shape,
         launch |-> matmul_launch(grad_buf(np_prod(out_shape)), weight_buf(np_prod(w_shape)),
                                  np_prod(in_shape), grad_input_args(isize, msize, osize),
                                  <<isize, msize, cnt>>, g)],
      grad_weight |->
        [shape |-> w_shape,
         launch |-> matmul_launch(input_buf(np_prod(in_shape)), grad_buf(np_prod(out_shape)),
                                  np_prod(w_shape), grad_weight_args(isize, msize, osize),
                                  <<msize, osize, cnt>>, g)]]

(***************************************************************************)
(* processing ops: Conv2D                                                  *)
(***************************************************************************)
\* work-item (gid0, Y, X) of KERNEL void conv: the (input, weight) index pairs
\* it reads, in loop order, and the output index it writes
conv_kernel(c, gid0, Y, X) ==
  LET B == gid0 \div (c.groups * c.rcout)
      g == (gid0 \div c.rcout) % c.groups
      co == gid0 % c.rcout
      IY == Y * c.ys
      IX == X * c.xs
      n == c.cin * c.H * c.W
  IN [reads |-> [t \in 1..n |->
                   LET ci == (t - 1) \div (c.H * c.W)
                       y == IY + (((t - 1) \div c.W) % c.H)
                       x == IX + ((t - 1) % c.W)
                   IN <<B * c.groups * c.cin * c.iy * c.ix + g * c.cin * c.iy * c.ix
                          + ci * c.iy * c.ix + y * c.ix + x,
                        g * c.rcout * c.cin * c.H * c.W + co * c.cin * c.H * c.W
                          + ci * c.H * c.W + (y - IY) * c.W + (x - IX)>>],
      write |-> B * c.groups * c.rcout * c.oy * c.ox + g * c.rcout * c.oy * c.ox
                  + co * c.oy * c.ox + Y * c.ox + X]

\* Conv2D.forward(ctx, x, w, stride, groups); stride is the pair ctx.stride
Conv2D_forward(x_shape, w_shape, stride, groups) ==
  LET cout == w_shape[1]
      cin == w_shape[2]
      H == w_shape[3]
      W == w_shape[4]
      ys == stride[1]
      xs == stride[2]
      bs == x_shape[1]
      cin_ == x_shape[2]
      iy == x_shape[3]
      ix == x_shape[4]
      oy == floordiv(iy - (H - ys), ys)
      ox == floordiv(ix - (W - xs), xs)
  IN IF cin * groups # cin_ \/ cout % groups # 0
       THEN [err |-> TRUE, trace |-> <<"raise">>]
       ELSE
         LET rcout == cout \div groups
             c == [H |-> H, W |-> W, groups |-> groups, rcout |-> rcout, cin |-> cin,
                   oy |-> oy, ox |-> ox, iy |-> iy, ix |-> ix, ys |-> ys, xs |-> xs]
             items == {<<gid0, Y, X>> : gid0 \in 0..(bs * groups * rcout - 1),
                                        Y \in 0..(oy - 1), X \in 0..(ox - 1)}
         IN [err |-> FALSE,
             trace |-> <<"save_for_backward", "GPUBuffer", "clbuild", "launch">>,
             shape |-> <<bs, cout, oy, ox>>,
             args |-> c,
             items |-> [it \in items |-> conv_kernel(c, it[1], it[2], it[3])]]

\* acc of one pass of a kernel's accumulation loop: the products of the
\* (a, b) elements at the index pairs read, summed in loop order
conv_acc(reads, a, b) == seq_sum([t \in DOMAIN reads |-> a[reads[t][1]] * b[reads[t][2]]])

\* work-item (gid0, y, x) of KERNEL void convw: the (ggg, tensx) index pairs it
\* reads in the order of its Y, X, B loops, and the dw index it writes
convw_kernel(c, gid0, y, x) ==
  LET g == gid0 \div (c.rcout * c.cin)
      co == (gid0 \div c.cin) % c.rcout
      ci == gid0 % c.cin
  IN [reads |-> [t \in 1..(c.oy * c.ox * c.bs) |->
                   LET B == (t - 1) % c.bs
                       X == ((t - 1) \div c.bs) % c.ox
                       Y == (t - 1) \div (c.bs * c.ox)
                   IN <<B * c.groups * c.rcout * c.oy * c.ox + g * c.rcout * c.oy * c.ox
                          + co * c.oy * c.ox + Y * c.ox + X,
                        B * c.groups * c.cin * c.iy * c.ix + g * c.cin * c.iy * c.ix
                          + ci * c.iy * c.ix + (Y * c.ys + y) * c.ix + X * c.xs + x>>],
      write |-> gid0 * c.H * c.W + y * c.W + x]

\* faulty variant of convx_kernel: the dx index without its ci*iy*ix term
convx_kernel_no_ci(c, B, g, ci) ==
  [t \in 1..(c.oy * c.ox * c.H * c.W) |->
     LET x == (t - 1) % c.W
         y == ((t - 1) \div c.W) % c.H
         X == ((t - 1) \div (c.W * c.H)) % c.ox
         Y == (t - 1) \div (c.W * c.H * c.ox)
     IN [reads |-> [cc \in 1..c.rcout |->
                      <<B * c.groups * c.rcout * c.oy * c.ox + g * c.rcout * c.oy * c.ox
                          + (cc - 1) * c.oy * c.ox + Y * c.ox + X,
                        g * c.rcout * c.cin * c.H * c.W + (cc - 1) * c.cin * c.H * c.W
                          + ci * c.H * c.W + y * c.W + x>>],
         write |-> B * c.groups * c.cin * c.iy * c.ix + g * c.cin * c.iy * c.ix
                     + (Y * c.ys + y) * c.ix + X * c.xs + x]]

\* work-item (B, g, ci) of KERNEL void convx: one entry per pass of its
\* Y, X, y, x loops, in loop order: the (ggg, tensw) index pairs read for acc
\* in the order of the c loop, and the dx index acc is added into
convx_kernel(c, B, g, ci) ==
  [t \in 1..(c.oy * c.ox * c.H * c.W) |->
     LET x == (t - 1) % c.W
         y == ((t - 1) \div c.W) % c.H
         X == ((t - 1) \div (c.W * c.H)) % c.ox
         Y == (t - 1) \div (c.W * c.H * c.ox)
     IN [reads |-> [cc \in 1..c.rcout |->
                      <<B * c.groups * c.rcout * c.oy * c.ox + g * c.rcout * c.oy * c.ox
                          + (cc - 1) * c.oy * c.ox + Y * c.ox + X,
                        g * c.rcout * c.cin * c.H * c.W + (cc - 1) * c.cin * c.H * c.W
                          + ci * c.H * c.W + y * c.W + x>>],
         write |-> B * c.groups * c.cin * c.iy * c.ix + g * c.cin * c.iy * c.ix
                     + ci * c.iy * c.ix + (Y * c.ys + y) * c.ix + X * c.xs + x]]

\* Conv2D.backward(ctx, grad_output) up to its two launches: x_shape and
\* w_shape are ctx.saved_tensors, stride is the pair ctx.stride; dx is created
\* from a host array of zeros, dw without contents (garbage where no convw
\* work-item writes), and convw has run: each dw cell holds the acc of the
\* work-item that writes it
Conv2D_backward(x_shape, w_shape, stride, groups, garbage) ==
  LET cout == w_shape[1]
      cin == w_shape[2]
      H == w_shape[3]
      W == w_shape[4]
      ys == stride[1]
      xs == stride[2]
      bs == x_shape[1]
      cin_ == x_shape[2]
      iy == x_shape[3]
      ix == x_shape[4]
      oy == floordiv(iy - (H - ys), ys)
      ox == floordiv(ix - (W - xs), xs)
  IN IF cin * groups # cin_ \/ cout % groups # 0
       THEN [err |-> TRUE, trace |-> <<"raise">>]
       ELSE
         LET rcout == cout \div groups
             c == [H |-> H, W |-> W, groups |-> groups, rcout |-> rcout, cin |-> cin,
                   oy |-> oy, ox |-> ox, iy |-> iy, ix |-> ix, ys |-> ys, xs |-> xs,
                   bs |-> bs]
             witems == {<<gid0, y, x>> : gid0 \in 0..(groups * rcout * cin - 1),
                                         y \in 0..(H - 1), x \in 0..(W - 1)}
             xitems == {<<B, g, ci>> : B \in 0..(bs - 1), g \in 0..(groups - 1),
                                       ci \in 0..(cin - 1)}
             convw == [it \in witems |-> convw_kernel(c, it[1], it[2], it[3])]
             ggg == grad_buf(bs * cout * oy * ox)
             tensx == input_buf(np_prod(x_shape))
         IN [err |-> FALSE,
             trace |-> <<"GPUBuffer", "GPUBuffer", "clbuild", "clbuild", "launch", "launch">>,
             args |-> c,
             dx_shape |-> <<bs, cin_, iy, ix>>,
             dw_shape |-> <<cout, cin, H, W>>,
             dx |-> [p \in 0..(bs * cin_ * iy * ix - 1) |-> 0],
             dw |-> [p \in 0..(cout * cin * H * W - 1) |->
                       LET ws == {it \in witems : convw[it].write = p}
                       IN IF ws = {} THEN garbage
                          ELSE conv_acc(convw[CHOOSE it \in ws : TRUE].reads, ggg, tensx)],
             convw |-> convw,
             convx |-> [it \in xitems |-> convx_kernel(c, it[1], it[2], it[3])]]

(***************************************************************************)
(* State machine                                                           *)
(***************************************************************************)
Init ==
  /\ pc = "idle"
  /\ call = [fn |-> "none"]
  /\ saved = <<>>
  /\ out = [err |-> FALSE]
  /\ gout = <<>>
  /\ clbuild_cache = <<>>
  /\ binop_cache = <<>>
  /\ compiles = <<>>

\* Add.forward(ctx, x, y)
AddForward(x_shape, y_shape) ==
  /\ pc = "idle"
  /\ call' = [fn |-> "Add", x |-> x_shape, y |-> y_shape]
  /\ out' = binary_op(x_shape, y_shape)
  /\ saved' = <<x_shape, y_shape>>
  /\ pc' = IF out'.err THEN "failed" ELSE "forward"
  /\ UNCHANGED <<gout, cachevars>>

\* Add.backward(ctx, grad_output): grad_output has the shape of the forward output
AddBackward ==
  /\ pc = "forward"
  /\ call.fn = "Add"
  /\ gout' = <<unbroadcast(out.shape, saved[1]), unbroadcast(out.shape, saved[2])>>
  /\ pc' = "backward"
  /\ UNCHANGED <<call, saved, out, cachevars>>

\* the axis arguments Sum.forward takes: None, one int, or a list of axes
AxisArgs(shape) ==
  {NoAxis} \cup {[kind |-> "int", ax |-> {a}] : a \in 1..Len(shape)}
           \cup {AxisList(S) : S \in SUBSET (1..Len(shape))}

\* Sum.forward(ctx, input, axis)
SumForward(shape, axis) ==
  /\ pc = "idle"
  /\ call' = [fn |-> "Sum", shape |-> shape, axis |-> axis]
  /\ LET ax == IF axis.kind = "int" THEN AxisList(axis.ax) ELSE axis
         ret == reduce_op(shape, ax)
     IN /\ saved' = <<shape, ax>>
        /\ out' = [err |-> FALSE,
                   trace |-> <<"GPUBuffer", "clbuild", "launch">>,
                   reduce |-> ret,
                   shape |-> IF ax.kind = "None" THEN ret.shape
                             ELSE SelectSeq([i \in 1..Len(shape) |-> <<i, shape[i]>>],
                                            LAMBDA e : e[1] \notin ax.ax)]
  /\ pc' = "forward"
  /\ UNCHANGED <<gout, cachevars>>

MatShapes == UNION {[1..r -> 1..MaxMatDim] : r \in 2..MaxMatRank}

\* Matmul.forward; g is drawn only when the launch reads outside a buffer
MatmulForward(in_shape, w_shape, g) ==
  /\ pc = "idle"
  /\ call' = [fn |-> "Matmul", input |-> in_shape, weight |-> w_shape]
  /\ out' = Matmul_forward(in_shape, w_shape, g)
  /\ (out'.err \/ ~out'.launch.oob_read) => g = 0
  /\ saved' = IF out'.err THEN <<>> ELSE <<in_shape, w_shape, out'.cnt>>
  /\ pc' = IF out'.err THEN "failed" ELSE "forward"
  /\ UNCHANGED <<gout, cachevars>>

MatmulBackward(g) ==
  /\ pc = "forward"
  /\ call.fn = "Matmul"
  /\ gout' = Matmul_backward(saved[1], saved[2], saved[3], out.shape, g)
  /\ (~gout'.grad_input.launch.oob_read /\ ~gout'.grad_weight.launch.oob_read
      /\ ~gout'.grad_weight.launch.oob_write) => g = 0
  /\ pc' = "backward"
  /\ UNCHANGED <<call, saved, out, cachevars>>

\* the buffer Transpose and Slice are applied to in the modelled calls
x_buf(n) == [i \in 0..(n - 1) |-> i + 1]

Perms(n) == {f \in [1..n -> 1..n] : \A i, j \in 1..n : f[i] = f[j] => i = j}

\* Transpose.forward(ctx, x, order)
TransposeForward(shape, order) ==
  /\ pc = "idle"
  /\ call' = [fn |-> "Transpose", shape |-> shape, order |-> order]
  /\ out' = [err |-> FALSE, trace |-> <<"GPUBuffer", "clbuild", "launch">>]
              @@ perm_axis(x_buf(np_prod(shape)), shape, order)
  /\ saved' = <<order>>
  /\ pc' = "forward"
  /\ UNCHANGED <<gout, cachevars>>

\* Transpose.backward(ctx, grad_output), applied to the forward output
TransposeBackward ==
  /\ pc = "forward"
  /\ call.fn = "Transpose"
  /\ gout' = perm_axis(out.buf, out.shape, backward_order(saved[1]))
  /\ pc' = "backward"
  /\ UNCHANGED <<call, saved, out, cachevars>>

\* the (start, end) pairs explored on an axis of size d: start from -1 to 1,
\* end from d-1 to d+1, end > start
SliceRanges(d) == {r \in (-1..1) \X ((d - 1)..(d + 1)) : r[2] > r[1]}

SliceShapes == UNION {[1..r -> 1..MaxSliceDim] : r \in 1..MaxSliceRank}

SliceArgs(shape) ==
  {arg \in [1..Len(shape) -> (-1..1) \X (0..(MaxSliceDim + 1))] :
     \A i \in 1..Len(shape) : arg[i] \in SliceRanges(shape[i])}

\* Slice.forward(ctx, x, arg)
SliceForward(shape, arg) ==
  /\ pc = "idle"
  /\ call' = [fn |-> "Slice", shape |-> shape, arg |-> arg]
  /\ out' = [err |-> FALSE, trace |-> <<"GPUBuffer", "clbuild", "launch">>]
              @@ inner_slice(x_buf(np_prod(shape)), shape, arg)
  /\ saved' = <<shape>>
  /\ pc' = "forward"
  /\ UNCHANGED <<gout, cachevars>>

\* Slice.backward(ctx, grad_output), grad_output of the forward output's shape
SliceBackward ==
  /\ pc = "forward"
  /\ call.fn = "Slice"
  /\ gout' = inner_slice(grad_buf(np_prod(out.shape)), out.shape,
                         slice_backward_arg(saved[1], call.arg, out.shape))
  /\ pc' = "backward"
  /\ UNCHANGED <<call, saved, out, cachevars>>

\* the shape arguments of Reshape explored: entries 1..MaxDim or -1
ReshapeArgs == UNION {[1..r -> (1..MaxDim) \cup {-1}] : r \in 1..MaxReshapeRank}
ReshapeInputs == UNION {[1..r -> 1..MaxDim] : r \in 1..MaxReshapeRank}

\* Reshape.forward(ctx, x, shape)
ReshapeForward(x_shape, shape) ==
  /\ pc = "idle"
  /\ call' = [fn |-> "Reshape", x |-> x_shape, shape |-> shape]
  /\ out' = Reshape_forward(x_shape, shape)
  /\ saved' = <<x_shape>>
  /\ pc' = IF out'.err THEN "failed" ELSE "forward"
  /\ UNCHANGED <<gout, cachevars>>

\* the Conv2D operands explored: the kernel no larger than the input
ConvDims == 1..MaxConv
ConvInputs ==
  {io \in [x : [1..4 -> ConvDims], w : [1..4 -> ConvDims]] :
     io.w[3] <= io.x[3] /\ io.w[4] <= io.x[4]}

\* Conv2D.forward(ctx, x, w, stride, groups), an int stride made a pair
Conv2DForward(x_shape, w_shape, stride, groups) ==
  /\ pc = "idle"
  /\ call' = [fn |-> "Conv2D", x |-> x_shape, w |-> w_shape,
              stride |-> stride, groups |-> groups]
  /\ out' = Conv2D_forward(x_shape, w_shape, <<stride, stride>>, groups)
  /\ saved' = IF out'.err THEN <<>> ELSE <<x_shape, w_shape>>
  /\ pc' = IF out'.err THEN "failed" ELSE "forward"
  /\ UNCHANGED <<gout, cachevars>>

\* the Conv2D calls whose backward pass is run work-item by work-item: batch,
\* channels, groups and stride as in ConvDims, spatial sizes up to MaxConvx,
\* the kernel no larger than the input, at most MaxWorkItems convx work-items
\* (bs * groups * cin) and at most MaxAdds additions in the whole launch
\* (oy * ox * H * W for each work-item)
ConvxSizes == 1..MaxConvx
ConvxShapes == {s \in [1..4 -> ConvDims \cup ConvxSizes] : s[1] \in ConvDims /\ s[2] \in ConvDims}
ConvxCalls ==
  {a \in [x : ConvxShapes, w : ConvxShapes, stride : ConvDims, groups : ConvDims] :
     /\ a.w[3] <= a.x[3]
     /\ a.w[4] <= a.x[4]
     /\ a.x[1] * a.groups * a.w[2] <= MaxWorkItems
     /\ a.x[1] * a.groups * a.w[2]
          * floordiv(a.x[3] - (a.w[3] - a.stride), a.stride)
          * floordiv(a.x[4] - (a.w[4] - a.stride), a.stride) * a.w[3] * a.w[4] <= MaxAdds}

\* every convx work-item has run through its loops
convx_done(g) == \A it \in DOMAIN g.convx : g.k[it] = Len(g.convx[it])

\* Conv2D.backward(ctx, grad_output) on the control thread: the buffers are
\* made, convw is run and convx is launched; k counts the loop passes each
\* convx work-item has completed, held and tmp are its pending dx[...] += acc
Conv2DBackward(garbage) ==
  /\ pc = "forward"
  /\ call.fn = "Conv2D"
  /\ LET r == Conv2D_backward(saved[1], saved[2], <<call.stride, call.stride>>,
                              call.groups, garbage)
     IN IF r.err
          THEN /\ gout' = r
               /\ pc' = "failed"
          ELSE /\ gout' = [trace |-> r.trace, args |-> r.args, dx_shape |-> r.dx_shape,
                           dw_shape |-> r.dw_shape, dx |-> r.dx, dw |-> r.dw,
                           convw |-> r.convw, convx |-> r.convx,
                           k |-> [it \in DOMAIN r.convx |-> 0],
                           held |-> [it \in DOMAIN r.convx |-> FALSE],
                           tmp |-> [it \in DOMAIN r.convx |-> 0]]
               /\ pc' = IF convx_done(gout') THEN "done" ELSE "backward"
  /\ UNCHANGED <<call, saved, out, cachevars>>

\* the convx work-items of the launch in flight
ConvxItems == IF pc = "backward" /\ call.fn = "Conv2D" THEN DOMAIN gout.convx ELSE {}

\* dx[...] += acc of work-item it, first half: acc is computed and the dx
\* cell is loaded; a load outside the buffer yields garbage
ConvxLoad(it) ==
  /\ pc = "backward"
  /\ call.fn = "Conv2D"
  /\ ~gout.held[it]
  /\ gout.k[it] < Len(gout.convx[it])
  /\ LET p == gout.convx[it][gout.k[it] + 1].write
     IN \E v \in (IF p \in DOMAIN gout.dx THEN {gout.dx[p]} ELSE Garbage) :
          gout' = [gout EXCEPT !.held[it] = TRUE, !.tmp[it] = v]
  /\ UNCHANGED <<pc, call, saved, out, cachevars>>

\* dx[...] += acc of work-item it, second half: the loaded value plus acc is
\* stored into the dx cell (a store outside the buffer leaves dx as it is) and
\* the loops go on
ConvxStore(it) ==
  /\ pc = "backward"
  /\ call.fn = "Conv2D"
  /\ gout.held[it]
  /\ LET e == gout.convx[it][gout.k[it] + 1]
         acc == conv_acc(e.reads, grad_buf(np_prod(out.shape)), weight_buf(np_prod(saved[2])))
     IN gout' = [gout EXCEPT !.held[it] = FALSE,
                             !.k[it] = @ + 1,
                             !.dx = IF e.write \in DOMAIN @
                                      THEN [@ EXCEPT ![e.write] = gout.tmp[it] + acc]
                                      ELSE @]
  /\ pc' = IF convx_done(gout') THEN "done" ELSE "backward"
  /\ UNCHANGED <<call, saved, out, cachevars>>

\* The requests explored: one text (0) and one binop key (0) are asked for
\* again and again, every other request is for a text or key never seen
\* before, and a run builds its kernels either all through clbuild or all
\* through get_binop_prg.  Binop key 0 is asked for again only when it has
\* left the cache or the cache is full.
fresh_prg == Cardinality({s \in DOMAIN compiles : s > 0}) + 1
fresh_key == Cardinality({s \in DOMAIN compiles : s < binop_src(0)}) + 1
ClbuildRequests == {0} \cup (IF fresh_prg <= MaxKeys THEN {fresh_prg} ELSE {})
BinopRequests ==
  (IF ~lru_hit(binop_cache, 0) \/ Len(binop_cache) >= lru_maxsize THEN {0} ELSE {})
    \cup (IF fresh_key <= MaxKeys THEN {fresh_key} ELSE {})

\* a call clbuild(thr, prg, name) by an operation
Clbuild(prg) ==
  /\ pc = "idle"
  /\ binop_cache = <<>>
  /\ LET r == clbuild(clbuild_cache, compiles, prg)
     IN /\ clbuild_cache' = r.cache
        /\ compiles' = r.compiles
        /\ call' = [fn |-> "clbuild", key |-> prg]
        /\ out' = [err |-> FALSE, handle |-> r.handle]
  /\ UNCHANGED <<pc, saved, gout, binop_cache>>

\* a call get_binop_prg(thr, code, complist) with the c-th distinct key
GetBinopPrg(c) ==
  /\ pc = "idle"
  /\ \A i \in 1..Len(clbuild_cache) : clbuild_cache[i].key < 0
  /\ call' = [fn |-> "get_binop_prg", key |-> c]
  /\ IF lru_hit(binop_cache, c)
       THEN /\ binop_cache' = lru_touch(binop_cache, c)
            /\ out' = [err |-> FALSE, handle |-> lru_value(binop_cache, c)]
            /\ UNCHANGED <<clbuild_cache, compiles>>
       ELSE LET r == clbuild(clbuild_cache, compiles, binop_src(c))
            IN /\ clbuild_cache' = r.cache
               /\ compiles' = r.compiles
               /\ binop_cache' = lru_store(binop_cache, c, r.handle)
               /\ out' = [err |-> FALSE, handle |-> r.handle]
  /\ UNCHANGED <<pc, saved, gout>>

NextBinop ==
  \/ \E x_shape \in Shapes, y_shape \in Shapes : AddForward(x_shape, y_shape)
  \/ AddBackward

SpecBinop == Init /\ [][NextBinop]_vars

NextMatmul ==
  \/ \E in_shape \in MatShapes, w_shape \in MatShapes, g \in Garbage :
       MatmulForward(in_shape, w_shape, g)
  \/ \E g \in Garbage : MatmulBackward(g)

SpecMatmul == Init /\ [][NextMatmul]_vars

NextReduce == \E shape \in Shapes : \E axis \in AxisArgs(shape) : SumForward(shape, axis)

SpecReduce == Init /\ [][NextReduce]_vars

PermShapes == UNION {[1..r -> 1..MaxPermDim] : r \in 1..MaxPermRank}

NextTranspose ==
  \/ \E shape \in PermShapes : \E order \in Perms(Len(shape)) : TransposeForward(shape, order)
  \/ TransposeBackward

SpecTranspose == Init /\ [][NextTranspose]_vars

NextSlice ==
  \/ \E shape \in SliceShapes : \E arg \in SliceArgs(shape) : SliceForward(shape, arg)
  \/ SliceBackward

SpecSlice == Init /\ [][NextSlice]_vars

NextMove ==
  \/ NextTranspose
  \/ NextSlice
  \/ \E x_shape \in ReshapeInputs, shape \in ReshapeArgs : ReshapeForward(x_shape, shape)


NextConv ==
  \E io \in ConvInputs, stride \in ConvDims, groups \in ConvDims :
    Conv2DForward(io.x, io.w, stride, groups)

\* every operation of the module, called by the one control thread
Next == NextBinop \/ NextReduce \/ NextMove \/ NextMatmul \/ NextConv

Spec == Init /\ [][Next]_vars

NextCache ==
  \/ \E prg \in ClbuildRequests : Clbuild(prg)
  \/ \E c \in BinopRequests : GetBinopPrg(c)

SpecCache == Init /\ [][NextCache]_vars

\* a Conv2D forward pass, its backward pass, and the convx work-items of the
\* backward launch taking their steps in any order
NextConvx ==
  \/ /\ pc = "idle"
     /\ \E a \in ConvxCalls : Conv2DForward(a.x, a.w, a.stride, a.groups)
  \/ \E g \in Garbage : Conv2DBackward(g)
  \/ \E it \in ConvxItems : ConvxLoad(it)
  \/ \E it \in ConvxItems : ConvxStore(it)

SpecConvx == Init /\ [][NextConvx]_vars

(***************************************************************************)
(* Properties                                                              *)
(***************************************************************************)
\* row-major coordinates of flat index f in shape sh, and the way back
unravel(sh, f) == [i \in 1..Len(sh) |-> (f \div prod_from(sh, i + 1)) % sh[i]]

RECURSIVE ravel_upto(_, _, _)
ravel_upto(sh, co, n) ==
  IF n = 0 THEN 0 ELSE ravel_upto(sh, co, n - 1) * sh[n] + co[n]
ravel(sh, co) == ravel_upto(sh, co, Len(sh))

\* the shorter shape padded with leading 1s (numpy's alignment)
right_align(shape, n) ==
  [i \in 1..n |-> IF i <= n - Len(shape) THEN 1 ELSE shape[i - (n - Len(shape))]]

\* the flat index of an operand of shape op_shape that plain per-dimension
\* broadcasting pairs with the output element p of shape out_shape
bcast_index(op_shape, out_shape, p) ==
  LET co == unravel(out_shape, p)
  IN ravel(op_shape, [i \in 1..Len(op_shape) |-> IF op_shape[i] > 1 THEN co[i] ELSE 0])

RECURSIVE set_sum(_)
set_sum(S) == IF S = {} THEN 0 ELSE LET e == CHOOSE e \in S : TRUE IN e + set_sum(S \ {e})

\* C1: binary_op right-aligns the two shapes: it succeeds exactly when every
\* right-aligned pair of dimensions is equal or holds a 1, and the output shape
\* is then the elementwise maximum of the right-aligned shapes.
C1_RightAligned ==
  (call.fn = "Add" /\ pc \in {"forward", "failed"}) =>
    LET n == IF Len(call.x) >= Len(call.y) THEN Len(call.x) ELSE Len(call.y)
        rx == right_align(call.x, n)
        ry == right_align(call.y, n)
        compat == \A i \in 1..n : rx[i] = ry[i] \/ rx[i] = 1 \/ ry[i] = 1
    IN /\ (pc = "forward") <=> compat
       /\ pc = "forward" => out.shape = np_maximum(rx, ry)

C5_UnbroadcastGrad ==
  (call.fn = "Add" /\ pc = "backward") =>
    \A j \in 1..2 :
      LET in_sh == saved[j]
          g == gout[j]
      IN /\ np_prod(g.shape) = np_prod(in_sh)
         /\ g.global_size = np_prod(in_sh)
         /\ \A e \in 0..(np_prod(in_sh) - 1) :
              LET from == {p \in 0..(np_prod(out.shape) - 1) :
                             bcast_index(in_sh, out.shape, p) = e}
              IN /\ e \in DOMAIN g.reads
                 /\ Range(g.reads[e]) = from
                 /\ Len(g.reads[e]) = Cardinality(from)

\* C10: in reduce_op the map (gid, x) -> idx is a bijection onto the input's
\* flat indices, idx agrees with gid on the kept axes, so each output element
\* sums exactly its own group, and the output shape is the input shape with
\* the reduced axes set to 1 (a full reduce with no axis given has shape (1,)).
C10_ReduceBijection ==
  (call.fn = "Sum" /\ pc = "forward") =>
    LET insh == call.shape
        r == out.reduce
        red == IF call.axis.kind = "None" THEN 1..Len(insh) ELSE call.axis.ax
        oshape == [i \in 1..Len(insh) |-> IF i \in red THEN 1 ELSE insh[i]]
        n_in == np_prod(insh)
        n_out == np_prod(oshape)
        group(gid) == {p \in 0..(n_in - 1) :
                         \A i \in (1..Len(insh)) \ red :
                            unravel(insh, p)[i] = unravel(oshape, gid)[i]}
    IN /\ r.shape = IF call.axis.kind = "None" THEN <<1>> ELSE oshape
       /\ r.global_size = n_out
       /\ r.sz * n_out = n_in
       /\ DOMAIN r.reads = 0..(n_out - 1)
       /\ \A gid \in 0..(n_out - 1) :
            /\ Len(r.reads[gid]) = r.sz
            /\ Range(r.reads[gid]) = group(gid)
            /\ Cardinality(group(gid)) = r.sz
            /\ r.res[gid] = set_sum({a_data(p) : p \in group(gid)})
       /\ UNION {Range(r.reads[gid]) : gid \in 0..(n_out - 1)} = 0..(n_in - 1)

\* C10 witness: a middle axis of a rank-3 input is reduced, with several
\* groups of several elements each
C10_Witness ==
  /\ call.fn = "Sum" /\ pc = "forward"
  /\ call.shape = <<2, 2, 2>>
  /\ call.axis.kind = "list" /\ call.axis.ax = {2}
  /\ \A i \in 1..3 : call.shape[i] >= 2

\* C3: Matmul.forward of an input (b..., n, m) of rank > 2 and a rank-2 weight
\* (m, k) returns shape (b..., n, k), every batch slice is that batch's matrix
\* times the weight, and every index read from the weight lies in [0, m*k).
C3_BatchedMatmul ==
  (call.fn = "Matmul" /\ pc = "forward" /\ Len(call.input) > 2 /\ Len(call.weight) = 2) =>
    LET n == last2(call.input)
        m == last(call.input)
        k == last(call.weight)
        b == np_prod(lead(call.input))
        I == input_buf(b * n * m)
        W == weight_buf(m * k)
        l == out.launch
    IN /\ out.shape = lead(call.input) \o <<n, k>>
       /\ \A it \in DOMAIN l.items : \A x \in 1..m :
            l.items[it].reads[x][2] \in 0..(m * k - 1)
       /\ \A s \in 0..(b - 1), i \in 0..(n - 1), j \in 0..(k - 1) :
            l.res[s * n * k + i * k + j] =
              seq_sum([x \in 1..m |-> I[s * n * m + i * m + (x - 1)] * W[(x - 1) * k + j]])

\* C4: for rank-2 X (n, m), W (m, k) and G (n, k), Matmul.backward returns
\* grad_input (n, m) = G times W transposed and grad_weight (m, k) = X transposed
\* times G, and both launches read and write inside their buffers only.
C4_MatmulBackward ==
  (call.fn = "Matmul" /\ pc = "backward" /\ Len(call.input) = 2 /\ Len(call.weight) = 2) =>
    LET n == call.input[1]
        m == call.input[2]
        k == call.weight[2]
        X == input_buf(n * m)
        W == weight_buf(m * k)
        G == grad_buf(n * k)
        gi == gout.grad_input
        gw == gout.grad_weight
    IN /\ gi.shape = <<n, m>> /\ gw.shape = <<m, k>>
       /\ ~gi.launch.oob_read /\ ~gi.launch.oob_write
       /\ ~gw.launch.oob_read /\ ~gw.launch.oob_write
       /\ DOMAIN gi.launch.res = 0..(n * m - 1)
       /\ DOMAIN gw.launch.res = 0..(m * k - 1)
       /\ \A i \in 0..(n - 1), j \in 0..(m - 1) :
            /\ gi.launch.items[<<i, j, 0>>].write = i * m + j
            /\ gi.launch.items[<<i, j, 0>>].reads =
                 [o \in 1..k |-> <<i * k + (o - 1), j * k + (o - 1)>>]
            /\ gi.launch.res[i * m + j] =
                 seq_sum([o \in 1..k |-> G[i * k + (o - 1)] * W[j * k + (o - 1)]])
       /\ \A j \in 0..(m - 1), o \in 0..(k - 1) :
            /\ gw.launch.items[<<j, o, 0>>].write = j * k + o
            /\ gw.launch.items[<<j, o, 0>>].reads =
                 [i \in 1..n |-> <<(i - 1) * m + j, (i - 1) * k + o>>]
            /\ gw.launch.res[j * k + o] =
                 seq_sum([i \in 1..n |-> X[(i - 1) * m + j] * G[(i - 1) * k + o]])

\* C4 witness: backward has run on rank-2 operands with n, m, k not all equal
C4_Witness ==
  /\ call.fn = "Matmul" /\ pc = "backward"
  /\ call.input = <<1, 2>> /\ call.weight = <<2, 2>>
  /\ gout.grad_input.shape = <<1, 2>>

\* C6: whenever a shape check fails in binary_op, Matmul.forward,
\* Reshape.forward or Conv2D.forward, the call has created no buffer object
\* and has built and launched no kernel before raising.
C6_ValidateFirst ==
  (pc = "failed" /\ call.fn \in {"Add", "Matmul", "Reshape", "Conv2D"}) =>
    Range(out.trace) \cap {"GPUBuffer", "clbuild", "launch"} = {}

\* C8: with end > start on every axis, Slice.backward re-applies the slice
\* kernel with range (-start, grad_dim + (dim - end)) and returns a buffer of
\* the input's shape holding grad_output[p - start] at every position p inside
\* the slice and 0 everywhere else.
C8_SliceBackward ==
  (call.fn = "Slice" /\ pc = "backward") =>
    LET shape == call.shape
        arg == call.arg
        n == Len(shape)
        G == grad_buf(np_prod(out.shape))
        inside(co) == \A i \in 1..n : arg[i][1] <= co[i] /\ co[i] < arg[i][2]
    IN /\ out.shape = [i \in 1..n |-> arg[i][2] - arg[i][1]]
       /\ gout.arg = [i \in 1..n |->
                        <<0 - arg[i][1], out.shape[i] + (shape[i] - arg[i][2])>>]
       /\ gout.shape = shape
       /\ ~gout.oob
       /\ DOMAIN gout.buf = 0..(np_prod(shape) - 1)
       /\ \A p \in 0..(np_prod(shape) - 1) :
            LET co == unravel(shape, p)
            IN gout.buf[p] =
                 IF inside(co)
                   THEN G[ravel(out.shape, [i \in 1..n |-> co[i] - arg[i][1]])]
                   ELSE 0

\* C8 witness: a rank-2 slice that starts before the input on one axis and
\* ends inside it, and starts inside and ends beyond it on the other
C8_Witness ==
  /\ call.fn = "Slice" /\ pc = "backward"
  /\ call.shape = <<2, 2>>
  /\ call.arg = <<<<-1, 1>>, <<1, 3>>>>

\* C9: for every shape and permutation order,
\* perm_axis(perm_axis(x, order), argsort(order)) has the shape of x and equals
\* x element for element, and the perm kernel's map from output to input flat
\* index is a bijection.
C9_TransposeRoundTrip ==
  (call.fn = "Transpose" /\ pc = "backward") =>
    LET n == np_prod(call.shape)
    IN /\ out.shape = [i \in 1..Len(call.shape) |-> call.shape[call.order[i]]]
       /\ {out.reads[gid] : gid \in 0..(n - 1)} = 0..(n - 1)
       /\ {gout.reads[gid] : gid \in 0..(n - 1)} = 0..(n - 1)
       /\ gout.shape = call.shape
       /\ gout.buf = x_buf(n)
       /\ \A gid \in 0..(n - 1) : out.reads[gout.reads[gid]] = gid

\* C9 witness: a rank-3 round trip through a cyclic order with distinct sizes
C9_Witness ==
  /\ call.fn = "Transpose" /\ pc = "backward"
  /\ call.shape = <<1, 2, 3>>
  /\ call.order = <<2, 3, 1>>

\* C7: a clbuild or get_binop_prg call whose key was seen before returns the
\* handle of the first call and compiles nothing: thr.compile runs at most
\* once per distinct source text, whatever was requested in between.
C7_CompileOnce ==
  /\ \A s \in DOMAIN compiles : compiles[s] <= 1
  /\ call.fn = "clbuild" => out.handle = <<call.key, 1>>
  /\ call.fn = "get_binop_prg" => out.handle = <<binop_src(call.key), 1>>

\* sum of the values of the function f over the finite set S
RECURSIVE fn_sum(_, _)
fn_sum(f, S) ==
  IF S = {} THEN 0 ELSE LET e == CHOOSE e \in S : TRUE IN f[e] + fn_sum(f, S \ {e})

\* the input gradient of a grouped strided convolution at flat cell p of x:
\* every output position (Y, X) and kernel offset (y, x) whose window element
\* lands on the cell contributes, over the rcout output channels of the
\* cell's group, grad_output times weight
conv_dx_ref(x_shape, w_shape, stride, groups, p) ==
  LET cout == w_shape[1]
      cin == w_shape[2]
      H == w_shape[3]
      W == w_shape[4]
      rcout == cout \div groups
      oy == floordiv(x_shape[3] - (H - stride), stride)
      ox == floordiv(x_shape[4] - (W - stride), stride)
      o_shape == <<x_shape[1], cout, oy, ox>>
      co == unravel(x_shape, p)
      g == co[2] \div cin
      ci == co[2] % cin
      G == grad_buf(np_prod(o_shape))
      Wt == weight_buf(np_prod(w_shape))
      wins == {v \in (0..(oy - 1)) \X (0..(ox - 1)) \X (0..(H - 1)) \X (0..(W - 1))
                       \X (0..(rcout - 1)) :
                 v[1] * stride + v[3] = co[3] /\ v[2] * stride + v[4] = co[4]}
      term == [v \in wins |->
                 G[ravel(o_shape, <<co[1], g * rcout + v[5], v[1], v[2]>>)]
                   * Wt[ravel(w_shape, <<g * rcout + v[5], ci, v[3], v[4]>>)]]
  IN fn_sum(term, wins)

\* C11: in Conv2D.backward, for a valid configuration (cin*groups equal to the
\* input channels, cout a multiple of groups, kernel no larger than the input,
\* a positive integer stride), dx holds only zeros when the convx launch
\* starts, every dx index a convx work-item adds into lies in
\* [0, bs*cin*groups*iy*ix), no two distinct work-items (B, g, ci) add into the
\* same dx cell, and so in every interleaving of the work-items' loads and
\* stores each dx cell always holds the sum of the additions completed on it,
\* and once all work-items are through, the sum of the contributions of every
\* window that overlaps the cell.
C11_ConvxAccumulate ==
  (call.fn = "Conv2D" /\ pc \in {"backward", "done"}) =>
    LET kern == gout.convx
        n == call.x[1] * call.w[2] * call.groups * call.x[3] * call.x[4]
        G == grad_buf(np_prod(out.shape))
        Wt == weight_buf(np_prod(call.w))
        added(p) == {e \in UNION {{<<it, t>> : t \in 1..gout.k[it]} : it \in DOMAIN kern} :
                       kern[e[1]][e[2]].write = p}
    IN /\ DOMAIN kern = (0..(call.x[1] - 1)) \X (0..(call.groups - 1)) \X (0..(call.w[2] - 1))
       /\ DOMAIN gout.dx = 0..(n - 1)
       /\ (\A it \in DOMAIN kern : gout.k[it] = 0) => \A p \in DOMAIN gout.dx : gout.dx[p] = 0
       /\ \A it \in DOMAIN kern : \A t \in DOMAIN kern[it] : kern[it][t].write \in 0..(n - 1)
       /\ \A it1 \in DOMAIN kern, it2 \in DOMAIN kern :
            it1 # it2 =>
              \A t1 \in DOMAIN kern[it1], t2 \in DOMAIN kern[it2] :
                kern[it1][t1].write # kern[it2][t2].write
       /\ \A p \in DOMAIN gout.dx :
            gout.dx[p] = fn_sum([e \in added(p) |-> conv_acc(kern[e[1]][e[2]].reads, G, Wt)],
                                added(p))
       /\ pc = "done" =>
            \A p \in DOMAIN gout.dx :
              gout.dx[p] = conv_dx_ref(call.x, call.w, call.stride, call.groups, p)

\* two batches of one channel, 3x1 input, 2x1 kernel, stride 1: the two
\* windows of each work-item overlap on row 1, and the launch has completed
C11_Witness ==
  /\ pc = "done"
  /\ call.fn = "Conv2D"
  /\ call.x = <<2, 1, 3, 1>>
  /\ call.w = <<1, 1, 2, 1>>
  /\ call.stride = 1
  /\ call.groups = 1
  /\ gout.convx[<<0, 0, 0>>][2].write = 1
  /\ gout.convx[<<0, 0, 0>>][3].write = 1
  /\ gout.convx[<<1, 0, 0>>][2].write = 4
  /\ gout.dx[1] = 7 * 5 + 12 * 3
  /\ gout.dx[4] = 17 * 5 + 22 * 3

====
